---- MODULE Spec2Model ----
(***************************************************************************)
(* The in-memory store (MemStorage) of the club administration server:    *)
(* eight entity maps keyed by integer id, one id counter per map, and the *)
(* create / get / update / delete / list operations of the facade; and    *)
(* the routes in front of it, with their session and their validation.    *)
(***************************************************************************)
EXTENDS Integers, Sequences, FiniteSets, TLC

VARIABLES
    maps,       \* map name -> the Map: a sequence of [key, value] entries in insertion order
    counters,   \* map name -> the next id to hand out (userId, schoolYearId, ...)
    now,        \* the wall clock read by `new Date()`
    issued,     \* history: map name -> the ids handed out so far
    bulk,       \* the bulkUpdateAttendance call in flight: its results array so far
    calls,      \* history: the number of facade calls made so far
    last,       \* history: the last facade call, its arguments and what it returned
    many,       \* the createManyStudents call in flight: the inputs taken and createdStudents
    held,       \* a reference a caller keeps to a record the facade returned
    session,    \* req.session of the client: NoRec, or its userId and isAdmin
    resp,       \* the response to the last request: its status and its body
    flights     \* the bulk calls started side by side, and history: their writes in order

vars ==
    <<maps, counters, now, bulk, issued, calls, last, many, held, session, resp, flights>>

----------------------------------------------------------------------------
(* Bounds of the exploration. *)

\* number of facade calls in a run
MaxCalls == 3
\* largest value of the clock
MaxClock == 1
\* number of requests in a run that get as far as a create, update or delete
MaxRouteCalls == 1

\* the calls of the facade that the requests make when the batch routes are among
\* them
MaxBatchCalls == 2

----------------------------------------------------------------------------
(* The entity maps. *)

MapNames ==
    {"users", "schoolYears", "courses", "classes", "students",
     "enrollments", "attendanceRecords", "payments"}

\* the facade has no update and no delete for users, and neither a get by id
\* nor a delete for attendance records
Updatable == MapNames \ {"users"}
Deletable == MapNames \ {"users", "attendanceRecords"}
Gettable == MapNames \ {"attendanceRecords"}

\* the name of the creation timestamp field
StampField(e) == IF e = "enrollments" THEN "enrolledAt" ELSE "createdAt"

NoRec == [none |-> TRUE]

\* an optional number argument: NoRec when left out, Num(v) when given
Num(v) == [v |-> v]

\* if (arg): a number given and not 0
Truthy(arg) == arg # NoRec /\ arg.v # 0

\* a caller holds no reference to a stored object
NoRef == [live |-> FALSE, map |-> "users", key |-> 0]

\* the reference h once map e holds another object, or none, under the key id:
\* it no longer points into the store
Detached(h, e, id) == IF h.live /\ h.map = e /\ h.key = id THEN NoRef ELSE h

----------------------------------------------------------------------------
(* JavaScript Map and object spread. *)

MapKeys(m) == {m[i].key : i \in 1..Len(m)}

MapHas(m, k) == k \in MapKeys(m)

MapGet(m, k) == m[CHOOSE i \in 1..Len(m) : m[i].key = k].value

\* a set that puts a new key first
MapSetFront(m, k, v) ==
    IF MapHas(m, k)
    THEN [i \in 1..Len(m) |-> IF m[i].key = k THEN [key |-> k, value |-> v] ELSE m[i]]
    ELSE <<[key |-> k, value |-> v]>> \o m

\* Map.prototype.set: an existing key keeps its place, a new key goes last
MapSet(m, k, v) ==
    IF MapHas(m, k)
    THEN [i \in 1..Len(m) |-> IF m[i].key = k THEN [key |-> k, value |-> v] ELSE m[i]]
    ELSE Append(m, [key |-> k, value |-> v])

\* a delete that removes the entry at place k of the map
MapDeleteAt(m, k) ==
    IF k \in 1..Len(m) THEN SubSeq(m, 1, k - 1) \o SubSeq(m, k + 1, Len(m)) ELSE m

\* a delete that only reports and removes nothing
MapDeleteNone(m, k) == m

\* Map.prototype.delete
MapDelete(m, k) == SelectSeq(m, LAMBDA en : en.key # k)

\* Array.from(map.values())
MapValues(m) == [i \in 1..Len(m) |-> m[i].value]

\* { ...a, ...b }
Spread(a, b) ==
    [f \in (DOMAIN a) \cup (DOMAIN b) |-> IF f \in DOMAIN b THEN b[f] ELSE a[f]]

----------------------------------------------------------------------------
(* Date values.  A Date object holds an instant, counted in time units     *)
(* since the epoch; a date string holds the text of a day and a time.      *)

TimesOfDay == {0, 1}
UnitsPerDay == Cardinality(TimesOfDay)

DateObj(day, tod) == [kind |-> "Date", ms |-> day * UnitsPerDay + tod]
DateStr(day, tod) == [kind |-> "string", day |-> day, tod |-> tod]

\* v instanceof Date
InstanceOfDate(v) == v.kind = "Date"

\* new Date(v): a copy of a Date, the parse of a string
NewDate(v) ==
    IF InstanceOfDate(v) THEN v ELSE [kind |-> "Date", ms |-> v.day * UnitsPerDay + v.tod]

\* d.toISOString().split('T')[0] for a Date object d
ToISODay(d) == d.ms \div UnitsPerDay

----------------------------------------------------------------------------
(* The records. *)

AdminUser ==
    [username |-> "admin", password |-> "password", name |-> "Admin", isAdmin |-> TRUE]

SeedSchoolYear ==
    [name |-> "2023-2024", startDate |-> DateObj(0, 0), endDate |-> DateObj(1, 0),
     active |-> TRUE]

\* { ...input, id, createdAt: new Date() }
NewRecord(e, input, id, t) ==
    Spread(Spread(input, [id |-> id]),
           IF e = "enrollments" THEN [enrolledAt |-> t] ELSE [createdAt |-> t])

\* the bulk calls that a caller starts without awaiting the one before the other
FlightIds == {1, 2}

\* a call that has not been made yet
FreeFlight == [kind |-> "none", state |-> "free", todo |-> << >>, results |-> << >>]

----------------------------------------------------------------------------
(* The inputs of the calls: InsertUser, InsertSchoolYear, ... values, and   *)
(* the partial records handed to update.                                    *)

StudentIds == {1, 2}
ClassIds == {1, 2}
CourseIds == {1, 2}
SchoolYearIds == {1, 2}
Days == {0, 1}
Months == {1, 2}
Years == {2024, 2025}

DateValues ==
    {DateObj(d, t) : d \in Days, t \in TimesOfDay}
        \cup {DateStr(d, t) : d \in Days, t \in TimesOfDay}

UserInputs ==
    {[username |-> u, password |-> "secret", name |-> "Teacher", isAdmin |-> FALSE] :
        u \in {"admin", "maria"}}

SchoolYearInputs ==
    {[name |-> "2024-2025", startDate |-> DateStr(0, 0), endDate |-> DateStr(1, 0),
      active |-> a] : a \in BOOLEAN}

CourseInputs ==
    {[name |-> "Pentozali", type |-> "dance", schoolYearId |-> y, monthlyFee |-> 30,
      active |-> a] : y \in SchoolYearIds, a \in BOOLEAN}

ClassInputs ==
    {[name |-> "A1", courseId |-> c, level |-> l] :
        c \in CourseIds, l \in {"beginner", "advanced"}}

StudentInputs ==
    {[firstName |-> f, lastName |-> "Kalogeraki", phone |-> "6900000000"] :
        f \in {"Eleni", "Nikos"}}

\* the active flag has a column default, so the insert schema lets it be left out
EnrollmentInputs ==
    {[studentId |-> s, classId |-> c, active |-> a] :
        s \in StudentIds, c \in ClassIds, a \in BOOLEAN}
        \cup {[studentId |-> s, classId |-> c] : s \in StudentIds, c \in ClassIds}

AttendanceInputs ==
    {[studentId |-> s, classId |-> c, date |-> d, present |-> p] :
        s \in StudentIds, c \in ClassIds, d \in DateValues, p \in BOOLEAN}

PaymentInputs ==
    {[studentId |-> s, courseId |-> c, amount |-> 30, month |-> m, year |-> y,
      paymentDate |-> DateStr(0, 0)] :
        s \in StudentIds, c \in CourseIds, m \in Months, y \in Years}

\* one input of each entity type (two users), for the runs that exercise all
\* eight maps at once
CoreInputs(e) ==
    CASE e = "users" -> UserInputs
      [] e = "schoolYears" -> {x \in SchoolYearInputs : x.active}
      [] e = "courses" -> {x \in CourseInputs : x.schoolYearId = 1 /\ x.active}
      [] e = "classes" -> {x \in ClassInputs : x.courseId = 1 /\ x.level = "beginner"}
      [] e = "students" -> {x \in StudentInputs : x.firstName = "Eleni"}
      [] e = "enrollments" ->
            {x \in EnrollmentInputs :
                x.studentId = 1 /\ x.classId = 1 /\ DOMAIN x = {"studentId", "classId"}}
      [] e = "attendanceRecords" ->
            {x \in AttendanceInputs :
                x.studentId = 1 /\ x.classId = 1 /\ x.date = DateStr(0, 0) /\ x.present}
      [] e = "payments" ->
            {x \in PaymentInputs :
                x.studentId = 1 /\ x.courseId = 1 /\ x.month = 1 /\ x.year = 2024}

\* the ids a caller passes for one map: the ids handed out and the next one
CallIds(e) == 1..counters[e]

\* partial records that set one ordinary field
FieldPartials(e) ==
    CASE e = "schoolYears" -> {[active |-> FALSE]}
      [] e = "courses" -> {[monthlyFee |-> 35], [active |-> FALSE]}
      [] e = "classes" -> {[level |-> "intermediate"]}
      [] e = "students" -> {[phone |-> "6911111111"], [email |-> "e@example.org"]}
      [] e = "enrollments" -> {[active |-> FALSE]}
      [] e = "attendanceRecords" -> {[present |-> FALSE]}
      [] e = "payments" -> {[amount |-> 25, month |-> 2]}
      [] OTHER -> {}

\* what a caller can put in a partial record at run time: ordinary fields, and
\* also an id or a creation timestamp
Partials(e) ==
    FieldPartials(e)
        \cup {[id |-> k] : k \in {1, 2}}
        \cup {IF e = "enrollments" THEN [enrolledAt |-> t] ELSE [createdAt |-> t] :
                 t \in 0..MaxClock}

----------------------------------------------------------------------------
(* Construction. *)

Init ==
    /\ maps = [e \in MapNames |->
                 CASE e = "users" ->
                        <<[key |-> 1, value |-> NewRecord(e, AdminUser, 1, 0)]>>
                   [] e = "schoolYears" ->
                        <<[key |-> 1, value |-> NewRecord(e, SeedSchoolYear, 1, 0)]>>
                   [] OTHER -> << >>]
    /\ counters = [e \in MapNames |-> IF e \in {"users", "schoolYears"} THEN 2 ELSE 1]
    /\ now = 0
    /\ calls = 0
    /\ bulk = [active |-> FALSE, n |-> 0, results |-> << >>]
    /\ issued = [e \in MapNames |-> IF e \in {"users", "schoolYears"} THEN {1} ELSE {}]
    /\ last = [op |-> "constructor", map |-> "users", id |-> 0, found |-> TRUE,
               arg |-> NoRec, result |-> NoRec]
    /\ many = [active |-> FALSE, inputs |-> << >>, results |-> << >>]
    /\ held = NoRef
    /\ session = NoRec
    /\ resp = [req |-> NoRec, status |-> 0, body |-> NoRec]
    /\ flights = [calls |-> [k \in FlightIds |-> FreeFlight], trace |-> << >>]

\* one more call of a create, update or delete method is made
Call ==
    /\ calls < MaxCalls
    /\ calls' = calls + 1

\* the caller awaits each call before it makes the next one
Idle == ~bulk.active /\ ~many.active

----------------------------------------------------------------------------
(* The facade operations on one map. *)

\* the clock advances
Tick ==
    /\ now < MaxClock
    /\ now' = now + 1
    /\ UNCHANGED <<maps, counters, bulk, issued, calls, last, many, flights, held,
                   session, resp>>

\* a map that hands out the size of the map plus one
FreshIdFromSize(e) == Len(maps[e]) + 1

\* const id = this.studentId++ (and the same for the other seven counters)
FreshId(e) == counters[e]

\* createUser, createSchoolYear, createCourse, createClass, createStudent,
\* createEnrollment, createAttendance, createPayment: what the method does to the
\* store
DoCreate(e, input) ==
    /\ Idle
    /\ Call
    /\ LET id == FreshId(e)
           rec == NewRecord(e, input, id, now)
       IN /\ counters' = [counters EXCEPT ![e] = id + 1]
          /\ maps' = [maps EXCEPT ![e] = MapSet(@, id, rec)]
          /\ issued' = [issued EXCEPT ![e] = @ \cup {id}]
          /\ last' = [op |-> "create", map |-> e, id |-> id, found |-> TRUE,
                      arg |-> input, result |-> rec]
    /\ UNCHANGED <<now, bulk, many, flights, held>>

\* a create method called on the facade directly
Create(e, input) == DoCreate(e, input) /\ UNCHANGED <<session, resp>>

\* a lookup by position in the map instead of by key
GetByPosition(m, id) == IF id \in 1..Len(m) THEN m[id].value ELSE NoRec

\* getUser, getSchoolYear, getCourse, getClass, getStudent, getEnrollment, getPayment:
\* the record under the key, or undefined
Get(m, id) == IF MapHas(m, id) THEN MapGet(m, id) ELSE NoRec

\* an update that stores the payload in place of the record
ReplacedBy(existing, partial) == partial

\* { ...existingStudent, ...student } (and the same for the other six updates)
Merged(existing, partial) == Spread(existing, partial)

\* updateSchoolYear, updateCourse, updateClass, updateStudent, updateEnrollment,
\* updateAttendance, updatePayment: what the method does to the store
DoUpdate(e, id, partial) ==
    /\ Idle
    /\ Call
    /\ IF ~MapHas(maps[e], id)
       THEN /\ last' = [op |-> "update", map |-> e, id |-> id, found |-> FALSE,
                        arg |-> NoRec, result |-> NoRec]
            /\ UNCHANGED <<maps, held>>
       ELSE LET updated == Merged(MapGet(maps[e], id), partial)
            IN /\ maps' = [maps EXCEPT ![e] = MapSet(@, id, updated)]
               /\ held' = Detached(held, e, id)
               /\ last' = [op |-> "update", map |-> e, id |-> id, found |-> TRUE,
                           arg |-> partial, result |-> updated]
    /\ UNCHANGED <<counters, now, bulk, issued, many, flights>>

\* an update method called on the facade directly
Update(e, id, partial) == DoUpdate(e, id, partial) /\ UNCHANGED <<session, resp>>

\* the field by which records of other entity types refer to a record of e
RefField(e) ==
    CASE e = "schoolYears" -> "schoolYearId"
      [] e = "courses" -> "courseId"
      [] e = "classes" -> "classId"
      [] e = "students" -> "studentId"
      [] OTHER -> "none"

\* the entry holds a record that refers to the record id of e
RefersTo(en, e, id) == RefField(e) \in DOMAIN en.value /\ en.value[RefField(e)] = id

\* a delete that also removes the records that refer to the deleted one
DoDeleteCascading(e, id) ==
    /\ Idle
    /\ Call
    /\ maps' = [x \in MapNames |->
                   IF x = e
                   THEN MapDelete(maps[x], id)
                   ELSE SelectSeq(maps[x], LAMBDA en : ~RefersTo(en, e, id))]
    /\ last' = [op |-> "delete", map |-> e, id |-> id, found |-> MapHas(maps[e], id),
                arg |-> NoRec, result |-> NoRec]
    /\ held' = Detached(held, e, id)
    /\ UNCHANGED <<counters, now, bulk, issued, many, flights>>

\* deleteSchoolYear, deleteCourse, deleteClass, deleteStudent, deleteEnrollment,
\* deletePayment: what the method does to the store
DoDelete(e, id) ==
    /\ Idle
    /\ Call
    /\ maps' = [maps EXCEPT ![e] = MapDelete(@, id)]
    /\ last' = [op |-> "delete", map |-> e, id |-> id, found |-> MapHas(maps[e], id),
                arg |-> NoRec, result |-> NoRec]
    /\ held' = Detached(held, e, id)
    /\ UNCHANGED <<counters, now, bulk, issued, many, flights>>

\* a delete method called on the facade directly
Delete(e, id) == DoDelete(e, id) /\ UNCHANGED <<session, resp>>

----------------------------------------------------------------------------
(* All eight maps under create, get, update and delete. *)

Next ==
    \/ Tick
    \/ \E e \in MapNames : \E x \in CoreInputs(e) : Create(e, x)
    \/ \E e \in Updatable : \E id \in CallIds(e), p \in Partials(e) : Update(e, id, p)
    \/ \E e \in Deletable : \E id \in CallIds(e) : Delete(e, id)

Spec == Init /\ [][Next]_vars

----------------------------------------------------------------------------
(* Attendance. *)

\* the attendance inputs the attendance runs draw from: two (student, class)
\* pairs, a Date object at two times of one day and a date string of that day;
\* updates move records to the other student, class and day
AttendancePairs == {<<1, 1>>, <<2, 2>>}
AttendanceDates == {DateObj(0, 0), DateObj(0, 1), DateStr(0, 1)}
AttendanceSample ==
    {x \in AttendanceInputs :
        <<x.studentId, x.classId>> \in AttendancePairs /\ x.date \in AttendanceDates}

AttendancePartials ==
    {[present |-> FALSE], [date |-> DateObj(1, 0)], [date |-> DateStr(1, 0)],
     [studentId |-> 2], [classId |-> 2], [id |-> 2]}

\* the arguments a caller passes to getAttendance
ClassArgs == {0} \cup ClassIds
DateArgs == {DateObj(d, t) : d \in Days, t \in TimesOfDay}

\* a filter that compares the instants instead of the days
GetAttendanceByInstant(m, classId, date) ==
    LET ofClass == SelectSeq(MapValues(m), LAMBDA a : a.classId = classId)
    IN IF date # NoRec
       THEN SelectSeq(ofClass, LAMBDA a : NewDate(a.date) = date)
       ELSE ofClass

\* getAttendance(classId, date?); date is a Date object, or NoRec when left out
GetAttendance(m, classId, date) ==
    LET ofClass == SelectSeq(MapValues(m), LAMBDA a : a.classId = classId)
    IN IF date # NoRec
       THEN SelectSeq(ofClass,
                LAMBDA a :
                    (IF InstanceOfDate(a.date)
                     THEN ToISODay(a.date)
                     ELSE ToISODay(NewDate(a.date))) = ToISODay(date))
       ELSE ofClass

\* getStudentAttendance(studentId, classId?); classId is a number, or NoRec
GetStudentAttendance(m, studentId, classId) ==
    LET ofStudent == SelectSeq(MapValues(m), LAMBDA a : a.studentId = studentId)
    IN IF Truthy(classId)
       THEN SelectSeq(ofStudent, LAMBDA a : a.classId = classId.v)
       ELSE ofStudent

\* a find that finds nothing
FindNone(m, record) == [fault |-> FALSE, found |-> FALSE, value |-> NoRec]

\* the find of bulkUpdateAttendance from entry i on: the first entry of the same
\* student and class whose date is on the day of the input.  Calling toISOString
\* on a stored date that is a string throws a TypeError.
RECURSIVE FindExistingFrom(_, _, _)
FindExistingFrom(m, record, i) ==
    IF i > Len(m)
    THEN [fault |-> FALSE, found |-> FALSE, value |-> NoRec]
    ELSE LET a == m[i].value
         IN IF a.studentId = record.studentId /\ a.classId = record.classId
            THEN IF ~InstanceOfDate(a.date)
                 THEN [fault |-> TRUE, found |-> FALSE, value |-> NoRec]
                 ELSE IF ToISODay(a.date) = ToISODay(NewDate(record.date))
                      THEN [fault |-> FALSE, found |-> TRUE, value |-> a]
                      ELSE FindExistingFrom(m, record, i + 1)
            ELSE FindExistingFrom(m, record, i + 1)

FindExisting(m, record) == FindExistingFrom(m, record, 1)

\* a fault that takes back what the call had written
UndoneAfterFault(m, results) ==
    SelectSeq(m, LAMBDA en : \A i \in 1..Len(results) : results[i].id # en.key)

\* the map after the find has thrown: no handler in bulkUpdateAttendance, the
\* records written by the earlier turns stay
AfterFault(m, results) == m

\* bulkUpdateAttendance is called: results = []
BulkBegin ==
    /\ Idle
    /\ bulk' = [active |-> TRUE, n |-> 0, results |-> << >>]
    /\ last' = [op |-> "bulkBegin", map |-> "attendanceRecords", id |-> 0,
                found |-> FALSE, arg |-> NoRec, result |-> NoRec]
    /\ UNCHANGED <<maps, counters, now, issued, calls, many, flights, held, session, resp>>

\* one turn of the loop, up to its await: find the existing record, then call
\* updateAttendance or createAttendance and push what it returned
BulkStep(record) ==
    /\ bulk.active
    /\ LET m == maps["attendanceRecords"]
           hit == FindExisting(m, record)
       IN IF hit.fault
          THEN \* the find throws: the call is rejected, what was written stays
               /\ bulk' = [bulk EXCEPT !.active = FALSE, !.n = @ + 1]
               /\ last' = [op |-> "bulkFault", map |-> "attendanceRecords", id |-> 0,
                           found |-> FALSE, arg |-> record, result |-> NoRec]
               /\ maps' = [maps EXCEPT
                             !["attendanceRecords"] = AfterFault(@, bulk.results)]
               /\ UNCHANGED <<counters, issued, calls, held>>
          ELSE IF hit.found
          THEN \* updateAttendance(existingRecord.id, record)
               /\ Call
               /\ LET id == hit.value.id
                  IN IF ~MapHas(m, id)
                     THEN /\ bulk' = [bulk EXCEPT !.n = @ + 1]
                          /\ last' = [op |-> "bulkStep", map |-> "attendanceRecords",
                                      id |-> id, found |-> TRUE, arg |-> record,
                                      result |-> NoRec]
                          /\ UNCHANGED <<maps, held>>
                     ELSE LET updated == Merged(MapGet(m, id), record)
                          IN /\ maps' = [maps EXCEPT
                                           !["attendanceRecords"] = MapSet(@, id, updated)]
                             /\ held' = Detached(held, "attendanceRecords", id)
                             /\ bulk' = [bulk EXCEPT !.n = @ + 1,
                                                     !.results = Append(@, updated)]
                             /\ last' = [op |-> "bulkStep", map |-> "attendanceRecords",
                                         id |-> id, found |-> TRUE, arg |-> record,
                                         result |-> updated]
               /\ UNCHANGED <<counters, issued>>
          ELSE \* createAttendance(record)
               /\ Call
               /\ LET id == FreshId("attendanceRecords")
                      rec == NewRecord("attendanceRecords", record, id, now)
                  IN /\ counters' = [counters EXCEPT !["attendanceRecords"] = id + 1]
                     /\ maps' = [maps EXCEPT !["attendanceRecords"] = MapSet(@, id, rec)]
                     /\ issued' = [issued EXCEPT !["attendanceRecords"] = @ \cup {id}]
                     /\ bulk' = [bulk EXCEPT !.n = @ + 1, !.results = Append(@, rec)]
                     /\ last' = [op |-> "bulkStep", map |-> "attendanceRecords",
                                 id |-> id, found |-> FALSE, arg |-> record,
                                 result |-> rec]
                     /\ UNCHANGED held
    /\ UNCHANGED <<now, many, flights, session, resp>>

\* the loop is over: return results
BulkEnd ==
    /\ bulk.active
    /\ bulk' = [bulk EXCEPT !.active = FALSE]
    /\ last' = [op |-> "bulkReturn", map |-> "attendanceRecords", id |-> 0,
                found |-> FALSE, arg |-> NoRec, result |-> NoRec]
    /\ UNCHANGED <<maps, counters, now, issued, calls, many, flights, held, session, resp>>

NextAttendance ==
    \/ \E x \in AttendanceSample : Create("attendanceRecords", x)
    \/ \E id \in CallIds("attendanceRecords"), p \in AttendancePartials :
           Update("attendanceRecords", id, p)
    \/ BulkBegin
    \/ \E x \in AttendanceSample : BulkStep(x)
    \/ BulkEnd

SpecAttendance == Init /\ [][NextAttendance]_vars

----------------------------------------------------------------------------
(* The filtered lists of courses, classes, enrollments and payments. *)

\* getCourses(schoolYearId?)
GetCourses(m, schoolYearId) ==
    IF Truthy(schoolYearId)
    THEN SelectSeq(MapValues(m), LAMBDA course : course.schoolYearId = schoolYearId.v)
    ELSE MapValues(m)

\* getClasses(courseId?)
GetClasses(m, courseId) ==
    IF Truthy(courseId)
    THEN SelectSeq(MapValues(m), LAMBDA cls : cls.courseId = courseId.v)
    ELSE MapValues(m)

\* one `if (arg) list = list.filter(x => x.field === arg)` of a list operation
FilterBy(list, field, arg) ==
    IF Truthy(arg) THEN SelectSeq(list, LAMBDA x : x[field] = arg.v) ELSE list

\* getEnrollments(studentId?, classId?)
GetEnrollments(m, studentId, classId) ==
    FilterBy(FilterBy(MapValues(m), "studentId", studentId), "classId", classId)

\* getPayments(studentId?, courseId?, month?, year?)
GetPayments(m, studentId, courseId, month, year) ==
    FilterBy(FilterBy(FilterBy(FilterBy(MapValues(m),
        "studentId", studentId), "courseId", courseId), "month", month), "year", year)

QueryMaps == {"courses", "classes", "enrollments", "payments"}

\* the inputs of the list runs: records that differ in the filtered fields
QueryInputs(e) ==
    CASE e = "courses" -> {x \in CourseInputs : x.active}
      [] e = "classes" -> {x \in ClassInputs : x.level = "beginner"}
      [] e = "enrollments" -> {x \in EnrollmentInputs : "active" \in DOMAIN x /\ x.active}
      [] e = "payments" -> PaymentInputs

\* the filter arguments a caller passes: left out, 0, or a number a record can hold
OptArgs(S) == {NoRec, Num(0)} \cup {Num(v) : v \in S}

NextQuery ==
    \/ \E e \in QueryMaps : \E x \in QueryInputs(e) : Create(e, x)
    \/ \E e \in QueryMaps : \E id \in CallIds(e), p \in FieldPartials(e) : Update(e, id, p)
    \/ \E e \in QueryMaps : \E id \in CallIds(e) : Delete(e, id)

SpecQuery == Init /\ [][NextQuery]_vars

----------------------------------------------------------------------------
(* Bulk student creation. *)

\* an array that takes each new element at its front
Unshift(arr, x) == <<x>> \o arr

\* createdStudents.push(newStudent)
Push(arr, x) == Append(arr, x)

\* createManyStudents is called: createdStudents = []
ManyBegin ==
    /\ Idle
    /\ many' = [active |-> TRUE, inputs |-> << >>, results |-> << >>]
    /\ last' = [op |-> "manyBegin", map |-> "students", id |-> 0, found |-> FALSE,
                arg |-> NoRec, result |-> NoRec]
    /\ UNCHANGED <<maps, counters, now, bulk, flights, issued, calls, held, session, resp>>

\* one turn of the loop, up to its await: createStudent(student), then the push
\* of what it returned
ManyStep(student) ==
    /\ many.active
    /\ Call
    /\ LET id == FreshId("students")
           rec == NewRecord("students", student, id, now)
       IN /\ counters' = [counters EXCEPT !["students"] = id + 1]
          /\ maps' = [maps EXCEPT !["students"] = MapSet(@, id, rec)]
          /\ issued' = [issued EXCEPT !["students"] = @ \cup {id}]
          /\ many' = [many EXCEPT !.inputs = Append(@, student),
                                  !.results = Push(@, rec)]
          /\ last' = [op |-> "manyStep", map |-> "students", id |-> id, found |-> TRUE,
                      arg |-> student, result |-> rec]
    /\ UNCHANGED <<now, bulk, flights, held, session, resp>>

\* the loop is over: return createdStudents
ManyEnd ==
    /\ many.active
    /\ many' = [many EXCEPT !.active = FALSE]
    /\ last' = [op |-> "manyReturn", map |-> "students", id |-> 0, found |-> FALSE,
                arg |-> NoRec, result |-> NoRec]
    /\ UNCHANGED <<maps, counters, now, bulk, flights, issued, calls, held, session, resp>>

NextStudents ==
    \/ \E x \in StudentInputs : Create("students", x)
    \/ \E id \in CallIds("students"), p \in FieldPartials("students") :
           Update("students", id, p)
    \/ \E id \in CallIds("students") : Delete("students", id)
    \/ ManyBegin
    \/ \E x \in StudentInputs : ManyStep(x)
    \/ ManyEnd

SpecStudents == Init /\ [][NextStudents]_vars

----------------------------------------------------------------------------
(* Records in the hands of a caller.  The get methods return the object the   *)
(* map holds, create and update return the object they have just stored, and *)
(* the list methods return a new array of the objects the map holds.         *)

\* what a caller assigns to fields of a record it was handed
Assignments == {[phone |-> "6922222222"], [lastName |-> "Papadaki"]}

\* const s = await storage.getStudent(id): the caller keeps what get returned
Hold(e, id) ==
    /\ Idle
    /\ MapHas(maps[e], id)
    /\ held' = [live |-> TRUE, map |-> e, key |-> id]
    /\ last' = [op |-> "get", map |-> e, id |-> id, found |-> TRUE,
                arg |-> NoRec, result |-> Get(maps[e], id)]
    /\ UNCHANGED <<maps, counters, now, bulk, issued, calls, many, flights, session, resp>>

\* s.phone = ...: the caller writes fields of the object it holds, which is the
\* object in the map
Assign(patch) ==
    /\ Idle
    /\ held.live
    /\ maps' = [maps EXCEPT ![held.map] =
                   MapSet(@, held.key, Spread(MapGet(@, held.key), patch))]
    /\ last' = [op |-> "assign", map |-> held.map, id |-> held.key, found |-> TRUE,
                arg |-> patch, result |-> NoRec]
    /\ UNCHANGED <<counters, now, bulk, issued, calls, many, flights, held, session, resp>>

NextHeld ==
    \/ \E x \in StudentInputs : Create("students", x)
    \/ \E id \in CallIds("students"), p \in FieldPartials("students") :
           Update("students", id, p)
    \/ \E id \in CallIds("students") : Delete("students", id)
    \/ \E id \in CallIds("students") : Hold("students", id)
    \/ \E patch \in Assignments : Assign(patch)

SpecHeld == Init /\ [][NextHeld]_vars

----------------------------------------------------------------------------
(* The request layer: the session, the authenticate middleware, the schema   *)
(* validation of the bodies and the translation of results into statuses.    *)

\* the columns an insert schema requires: notNull and without a default
RequiredFields(e) ==
    CASE e = "users" -> {"username", "password", "name"}
      [] e = "schoolYears" -> {"name", "startDate", "endDate"}
      [] e = "courses" -> {"name", "type", "schoolYearId", "monthlyFee"}
      [] e = "classes" -> {"name", "courseId", "level"}
      [] e = "students" -> {"firstName", "lastName", "phone"}
      [] e = "enrollments" -> {"studentId", "classId"}
      [] e = "attendanceRecords" -> {"studentId", "classId", "date"}
      [] e = "payments" ->
            {"studentId", "courseId", "amount", "month", "year", "paymentDate"}

\* the columns an insert schema accepts and does not require: nullable, or with a
\* default; id and the creation timestamp are omitted from every insert schema
OptionalFields(e) ==
    CASE e = "users" -> {"isAdmin"}
      [] e = "schoolYears" -> {"active"}
      [] e = "courses" -> {"description", "active"}
      [] e = "classes" -> {"minAge", "maxAge", "maxStudents", "schedule"}
      [] e = "students" -> {"email", "guardianName"}
      [] e = "enrollments" -> {"active"}
      [] e = "attendanceRecords" -> {"present"}
      [] e = "payments" -> {}

\* the record without the fields outside F
Restrict(rec, F) == [f \in (DOMAIN rec) \cap F |-> rec[f]]

\* const { password: _, ...userInfo } = user
Without(rec, f) == [g \in (DOMAIN rec) \ {f} |-> rec[g]]

\* a validation that accepts every body
ParseAlways(e, body) == TRUE

\* insertXSchema.parse(body) throws a ZodError unless every required field is there
\* and no field has a value of the wrong type (IllTypedBody below)
ParseOk(e, body) == RequiredFields(e) \subseteq DOMAIN body /\ "illTyped" \notin DOMAIN body

\* what insertXSchema.parse(body) and insertXSchema.partial().parse(body) return: the
\* fields of the schema, the others stripped
Parsed(e, body) == Restrict(body, RequiredFields(e) \cup OptionalFields(e))

\* a body that has none of the fields of any schema
InvalidBody == [comment |-> "none"]

\* a body with a field whose value is not of the type of its column; the model
\* keeps the name of the field, not the value
IllTypedBody == [illTyped |-> "name"]

\* insertXSchema.partial().parse(body) throws a ZodError when a field that is
\* there has a value of the wrong type; no field is required
ParsePartialOk(e, body) == "illTyped" \notin DOMAIN body

\* the bodies posted to the collection of e
PostBodies(e) == CoreInputs(e) \cup {InvalidBody}

\* the bodies put to a record of e: fields of the schema, and an id, which is not
\* one
PutBodies(e) == FieldPartials(e) \cup {[id |-> 2], IllTypedBody}

\* the bodies posted to /api/auth/login
Usernames == {"admin", "maria", "nobody"}
Passwords == {"password", "secret"}
LoginBodies ==
    {[username |-> u, password |-> pw] : u \in Usernames, pw \in Passwords}
        \cup {[username |-> "admin"]}

\* getUserByUsername: the first user of the map with the username, or undefined
GetUserByUsername(m, username) ==
    LET hits == SelectSeq(MapValues(m), LAMBDA user : user.username = username)
    IN IF hits = << >> THEN NoRec ELSE hits[1]

\* a middleware that lets every request through
AuthenticateAll(sess) == TRUE

\* authenticate: !req.session.userId answers 401, otherwise next()
Authenticate(sess) == sess # NoRec /\ sess.userId # 0

\* req.session.isAdmin, which a session without a login does not have
IsAdmin(sess) == sess # NoRec /\ sess.isAdmin

\* a comparison that accepts every password
PasswordIgnored(user, password) == TRUE

\* user.password !== password, negated
PasswordMatches(user, password) == user.password = password

\* one more request gets as far as a create, update or delete of the facade
RouteCall == calls < MaxRouteCalls

\* a mapping that answers 200 whether or not the record was found
AlwaysOk(found) == 200

\* if (!schoolYear) return res.status(404), otherwise res.json: status 200
StatusOf(found) == IF found THEN 200 ELSE 404

\* the request, for the response that answers it
Req(route, e, id, body) == [route |-> route, map |-> e, id |-> id, body |-> body]

\* a request answered without a call of the facade
Answer(req, status) ==
    /\ resp' = [req |-> req, status |-> status, body |-> NoRec]
    /\ UNCHANGED <<maps, counters, now, bulk, issued, calls, last, many, flights,
                   held, session>>

\* POST /api/auth/login
Login(body) ==
    LET req == Req("login", "users", 0, body)
    IN IF ~({"username", "password"} \subseteq DOMAIN body)
       THEN Answer(req, 400)
       ELSE LET user == GetUserByUsername(maps["users"], body.username)
            IN IF user = NoRec \/ ~PasswordMatches(user, body.password)
               THEN Answer(req, 401)
               ELSE /\ session' = [userId |-> user.id, isAdmin |-> user.isAdmin]
                    /\ resp' = [req |-> req, status |-> 200,
                                body |-> Without(user, "password")]
                    /\ UNCHANGED <<maps, counters, now, bulk, issued, calls, last,
                                   many, flights, held>>

\* POST /api/auth/logout: req.session.destroy
Logout ==
    /\ session' = NoRec
    /\ resp' = [req |-> Req("logout", "users", 0, NoRec), status |-> 200, body |-> NoRec]
    /\ UNCHANGED <<maps, counters, now, bulk, issued, calls, last, many, flights, held>>

\* POST /api/users
PostUsers(body) ==
    LET req == Req("POST", "users", 0, body)
    IN IF ~Authenticate(session) THEN Answer(req, 401)
       ELSE IF ~IsAdmin(session) THEN Answer(req, 403)
       ELSE IF ~ParseOk("users", body) THEN Answer(req, 400)
       ELSE /\ RouteCall
            /\ DoCreate("users", Parsed("users", body))
            /\ resp' = [req |-> req, status |-> 201,
                        body |-> Without(last'.result, "password")]
            /\ UNCHANGED session

\* the entity types with routes of their own
RouteMaps == MapNames \ {"users"}

\* POST /api/school-years, /api/courses, /api/classes, /api/students,
\* /api/enrollments, /api/attendance, /api/payments
ApiPost(e, body) ==
    LET req == Req("POST", e, 0, body)
    IN IF ~Authenticate(session) THEN Answer(req, 401)
       ELSE IF ~ParseOk(e, body) THEN Answer(req, 400)
       ELSE /\ RouteCall
            /\ DoCreate(e, Parsed(e, body))
            /\ resp' = [req |-> req, status |-> 201, body |-> last'.result]
            /\ UNCHANGED session

\* GET /api/school-years/:id and the like
ApiGet(e, id) ==
    LET req == Req("GET", e, id, NoRec)
    IN IF ~Authenticate(session) THEN Answer(req, 401)
       ELSE LET rec == Get(maps[e], id)
            IN /\ last' = [op |-> "get", map |-> e, id |-> id, found |-> rec # NoRec,
                           arg |-> NoRec, result |-> rec]
               /\ resp' = [req |-> req, status |-> StatusOf(rec # NoRec), body |-> rec]
               /\ UNCHANGED <<maps, counters, now, bulk, issued, calls, many, flights, held,
                              session>>

\* GET /api/school-years and the like, without a filter; GET /api/attendance takes
\* the class from the query and answers 400 without one
ApiList(e, classId) ==
    LET req == Req("LIST", e, 0, classId)
    IN IF ~Authenticate(session) THEN Answer(req, 401)
       ELSE IF e = "attendanceRecords" /\ classId = NoRec THEN Answer(req, 400)
       ELSE LET list == IF e = "attendanceRecords"
                        THEN GetAttendance(maps[e], classId.v, NoRec)
                        ELSE MapValues(maps[e])
            IN /\ last' = [op |-> "list", map |-> e, id |-> 0, found |-> TRUE,
                           arg |-> classId, result |-> NoRec]
               /\ resp' = [req |-> req, status |-> 200, body |-> list]
               /\ UNCHANGED <<maps, counters, now, bulk, issued, calls, many, flights, held,
                              session>>

\* PUT /api/school-years/:id and the like
ApiPut(e, id, body) ==
    LET req == Req("PUT", e, id, body)
    IN IF ~Authenticate(session) THEN Answer(req, 401)
       ELSE IF ~ParsePartialOk(e, body) THEN Answer(req, 400)
       ELSE /\ RouteCall
            /\ DoUpdate(e, id, Parsed(e, body))
            /\ resp' = [req |-> req, status |-> StatusOf(last'.found),
                        body |-> last'.result]
            /\ UNCHANGED session

\* DELETE /api/school-years/:id and the like
ApiDelete(e, id) ==
    LET req == Req("DELETE", e, id, NoRec)
    IN IF ~Authenticate(session) THEN Answer(req, 401)
       ELSE /\ RouteCall
            /\ DoDelete(e, id)
            /\ resp' = [req |-> req, status |-> StatusOf(last'.found), body |-> NoRec]
            /\ UNCHANGED session

NextRoutes ==
    \/ \E body \in LoginBodies : Login(body)
    \/ Logout
    \/ \E body \in PostBodies("users") : PostUsers(body)
    \/ \E e \in RouteMaps : \E body \in PostBodies(e) : ApiPost(e, body)
    \/ \E e \in RouteMaps \cap Gettable : \E id \in CallIds(e) : ApiGet(e, id)
    \/ \E e \in RouteMaps :
           \E c \in IF e = "attendanceRecords" THEN {NoRec, Num(1)} ELSE {NoRec} :
               ApiList(e, c)
    \/ \E e \in RouteMaps : \E id \in CallIds(e), body \in PutBodies(e) :
           ApiPut(e, id, body)
    \/ \E e \in RouteMaps \cap Deletable : \E id \in CallIds(e) : ApiDelete(e, id)

SpecRoutes == Init /\ [][NextRoutes]_vars

----------------------------------------------------------------------------
(* The batch routes: POST /api/students/import and POST /api/attendance/bulk. *)

\* one more request gets as far as the facade
BatchCall == calls < MaxBatchCalls /\ calls' = calls + 1

\* the header rows of the uploaded files: the column names the handler looks for
Columns(style) ==
    CASE style = "camel" -> <<"firstName", "lastName", "phone", "guardianName">>
      [] style = "english" -> <<"First Name", "Last Name", "Phone", "Guardian Name">>
      [] style = "greek" -> <<"Όνομα", "Επώνυμο", "Τηλέφωνο", "Κηδεμόνας">>

CsvStyles == {"camel", "english", "greek"}

\* a row as parseCsv returns it with columns: true: the cell of each column, a
\* string, which is empty when the cell is
CsvRow(style, first, phone, guardian) ==
    LET c == Columns(style)
    IN (c[1] :> first) @@ (c[2] :> "Kalogeraki") @@ (c[3] :> phone) @@ (c[4] :> guardian)

CsvRows(style) ==
    {CsvRow(style, "Eleni", "6900000000", ""),
     CsvRow(style, "Nikos", "6900000001", "Maria"),
     CsvRow(style, "", "", "")}

\* a file that parseCsv cannot read
MalformedFile == [malformed |-> TRUE]

\* req.file: none, a file that does not parse, or a header row and up to two
\* rows, which differ (one row at most under the English headers)
CsvFiles ==
    {NoRec, MalformedFile}
        \cup {[rows |-> << >>]}
        \cup UNION {{[rows |-> <<r>>] : r \in CsvRows(st)} : st \in CsvStyles}
        \cup UNION {{[rows |-> <<r1, r2>>] : r1, r2 \in CsvRows(st)}
                         \ {[rows |-> <<r, r>>] : r \in CsvRows(st)} :
                     st \in CsvStyles \ {"english"}}

\* record[column]: the cell, or undefined when the file has no such column
Undefined == [has |-> FALSE, v |-> ""]
Cell(record, column) ==
    IF column \in DOMAIN record THEN [has |-> TRUE, v |-> record[column]] ELSE Undefined

\* a || b: b when a is undefined or the empty string, a otherwise
Or(a, b) == IF ~a.has \/ a.v = "" THEN b ELSE a

\* the value chosen for a field of studentData
Chosen(record, field) ==
    CASE field = "firstName" ->
           Or(Or(Cell(record, "firstName"), Cell(record, "First Name")),
              Cell(record, "Όνομα"))
      [] field = "lastName" ->
           Or(Or(Cell(record, "lastName"), Cell(record, "Last Name")),
              Cell(record, "Επώνυμο"))
      [] field = "phone" ->
           Or(Or(Cell(record, "phone"), Cell(record, "Phone")),
              Cell(record, "Τηλέφωνο"))
      [] field = "email" ->
           Or(Or(Cell(record, "email"), Cell(record, "Email")), Cell(record, "Email"))
      [] field = "guardianName" ->
           Or(Or(Or(Cell(record, "guardianName"), Cell(record, "Guardian Name")),
                 Cell(record, "Κηδεμόνας")),
              Undefined)

\* studentData: the fields whose chosen value is not undefined
StudentData(record) ==
    LET fields == {"firstName", "lastName", "phone", "email", "guardianName"}
    IN [f \in {g \in fields : Chosen(record, g).has} |-> Chosen(record, f).v]

\* a validation that looks at the first row only
ImportErrorsOfFirst(datas) ==
    {i \in 1..Len(datas) : i = 1 /\ ~ParseOk("students", datas[i])}

\* errors: the rows whose studentData insertStudentSchema.parse rejects
ImportErrors(datas) == {i \in 1..Len(datas) : ~ParseOk("students", datas[i])}

\* createManyStudents run to its return: createStudent for each student in turn
RECURSIVE CreateManyStudents(_, _, _)
CreateManyStudents(st, students, t) ==
    IF students = << >>
    THEN st
    ELSE LET id == st.counter
             rec == NewRecord("students", Head(students), id, t)
         IN CreateManyStudents([map |-> MapSet(st.map, id, rec),
                                counter |-> id + 1,
                                created |-> Push(st.created, rec)],
                               Tail(students), t)

\* POST /api/students/import
ApiImport(file) ==
    LET req == Req("IMPORT", "students", 0, file)
    IN IF ~Authenticate(session) THEN Answer(req, 401)
       ELSE IF file = NoRec THEN Answer(req, 400)
       ELSE IF file = MalformedFile THEN Answer(req, 500)
       ELSE LET datas == [i \in 1..Len(file.rows) |-> StudentData(file.rows[i])]
                students == [i \in 1..Len(datas) |-> Parsed("students", datas[i])]
            IN IF ImportErrors(datas) # {}
               THEN Answer(req, 400)
               ELSE LET out == CreateManyStudents(
                                   [map |-> maps["students"],
                                    counter |-> counters["students"],
                                    created |-> << >>],
                                   students, now)
                    IN /\ Idle
                       /\ BatchCall
                       /\ maps' = [maps EXCEPT !["students"] = out.map]
                       /\ counters' = [counters EXCEPT !["students"] = out.counter]
                       /\ issued' = [issued EXCEPT !["students"] =
                                        @ \cup {out.created[i].id :
                                                  i \in 1..Len(out.created)}]
                       /\ many' = [active |-> FALSE, inputs |-> students,
                                   results |-> out.created]
                       /\ last' = [op |-> "manyReturn", map |-> "students", id |-> 0,
                                   found |-> FALSE, arg |-> NoRec, result |-> NoRec]
                       /\ resp' = [req |-> req, status |-> 201,
                                   body |-> [count |-> Len(out.created),
                                             students |-> out.created]]
                       /\ UNCHANGED <<now, bulk, flights, held, session>>

\* the logins of the administrator, with the right and with a wrong password
AdminLogins == {body \in LoginBodies : body.username = "admin"}

\* the records of a bulk request: JSON, so the dates are strings; the last has all
\* the required fields and a present that is not a boolean
BulkRecords ==
    {x \in AttendanceSample : ~InstanceOfDate(x.date) /\ x.present}
        \cup {[studentId |-> 2, classId |-> 2, date |-> DateStr(0, 1),
               illTyped |-> "present"]}

\* a body whose records is not an array; the model keeps the fact, not the value
NonArrayBody == [notArray |-> "records"]

\* req.body of the bulk request
BulkBodies ==
    {InvalidBody, NonArrayBody, [records |-> << >>]}
        \cup {[records |-> <<r>>] : r \in BulkRecords}
        \cup {[records |-> <<r1, r2>>] : r1, r2 \in BulkRecords}

\* Array.isArray(records) && records.length !== 0
NonEmptyArray(body) ==
    /\ "records" \in DOMAIN body
    /\ "notArray" \notin DOMAIN body
    /\ body.records # << >>

\* a validation that looks at the first record only
BulkInvalidFirst(records) == ~ParseOk("attendanceRecords", records[1])

\* the loop over records returns 400 at the first record that
\* insertAttendanceSchema.parse rejects
BulkInvalid(records) ==
    \E i \in 1..Len(records) : ~ParseOk("attendanceRecords", records[i])

\* bulkUpdateAttendance run to its return or to its throw: for each record in
\* turn the find, then updateAttendance or createAttendance
RECURSIVE BulkUpdateAttendance(_, _, _)
BulkUpdateAttendance(st, records, t) ==
    IF records = << >>
    THEN st
    ELSE LET record == Head(records)
             hit == FindExisting(st.map, record)
         IN IF hit.fault
            THEN [st EXCEPT !.fault = TRUE]
            ELSE IF hit.found
            THEN LET id == hit.value.id
                 IN IF ~MapHas(st.map, id)
                    THEN BulkUpdateAttendance(st, Tail(records), t)
                    ELSE LET updated == Merged(MapGet(st.map, id), record)
                         IN BulkUpdateAttendance(
                                [st EXCEPT !.map = MapSet(@, id, updated),
                                           !.results = Append(@, updated),
                                           !.updated = @ \cup {id}],
                                Tail(records), t)
            ELSE LET id == st.counter
                     rec == NewRecord("attendanceRecords", record, id, t)
                 IN BulkUpdateAttendance(
                        [st EXCEPT !.map = MapSet(@, id, rec),
                                   !.counter = id + 1,
                                   !.results = Append(@, rec),
                                   !.created = @ \cup {id}],
                        Tail(records), t)

\* POST /api/attendance/bulk
ApiBulk(body) ==
    LET req == Req("BULK", "attendanceRecords", 0, body)
    IN IF ~Authenticate(session) THEN Answer(req, 401)
       ELSE IF ~NonEmptyArray(body) THEN Answer(req, 400)
       ELSE IF BulkInvalid(body.records) THEN Answer(req, 400)
       ELSE LET validatedRecords ==
                    [i \in 1..Len(body.records) |->
                        Parsed("attendanceRecords", body.records[i])]
                out == BulkUpdateAttendance(
                           [map |-> maps["attendanceRecords"],
                            counter |-> counters["attendanceRecords"],
                            results |-> << >>, updated |-> {}, created |-> {},
                            fault |-> FALSE],
                           validatedRecords, now)
            IN /\ Idle
               /\ BatchCall
               /\ maps' = [maps EXCEPT !["attendanceRecords"] = out.map]
               /\ counters' = [counters EXCEPT !["attendanceRecords"] = out.counter]
               /\ issued' = [issued EXCEPT !["attendanceRecords"] = @ \cup out.created]
               /\ bulk' = [active |-> FALSE, n |-> Len(out.results),
                           results |-> out.results]
               /\ held' = IF held.live /\ held.map = "attendanceRecords"
                                        /\ held.key \in out.updated
                          THEN NoRef ELSE held
               /\ last' = [op |-> IF out.fault THEN "bulkFault" ELSE "bulkReturn",
                           map |-> "attendanceRecords", id |-> 0, found |-> FALSE,
                           arg |-> NoRec, result |-> NoRec]
               /\ resp' = IF out.fault
                          THEN [req |-> req, status |-> 500, body |-> NoRec]
                          ELSE [req |-> req, status |-> 201,
                                body |-> [count |-> Len(out.results),
                                          records |-> out.results]]
               /\ UNCHANGED <<now, many, flights, session>>

NextBatch ==
    \/ \E body \in AdminLogins : Login(body)
    \/ \E e \in {"students", "attendanceRecords"} :
           \E body \in PostBodies(e) : ApiPost(e, body)
    \/ \E file \in CsvFiles : ApiImport(file)
    \/ \E body \in BulkBodies : ApiBulk(body)

SpecBatch == Init /\ [][NextBatch]_vars

----------------------------------------------------------------------------
(* Bulk calls in flight side by side: a caller starts createManyStudents or  *)
(* bulkUpdateAttendance and, before it settles, starts another. Each runs   *)
(* from one await of its loop to the next in one piece; at an await the     *)
(* other call may run.                                                      *)

\* the arrays passed to createManyStudents
FlightStudents ==
    {<<a>> : a \in StudentInputs} \cup {<<a, b>> : a, b \in StudentInputs}

\* the records passed to bulkUpdateAttendance: one triple with two times of day
\* as Date and once as string, and another triple
FlightRecords ==
    {x \in AttendanceSample :
        /\ x.present
        /\ \/ x.studentId = 1
           \/ x.date = DateObj(0, 0)}

FlightAttendance ==
    {<<a>> : a \in FlightRecords} \cup {<<a, b>> : a, b \in FlightRecords}

FlightInputs(kind) == IF kind = "many" THEN FlightStudents ELSE FlightAttendance

\* call k runs one turn of its loop, from the flight f it is in: the body of the
\* loop up to its await
FlightTurn(k, f) ==
    LET e == IF f.kind = "many" THEN "students" ELSE "attendanceRecords"
        out == IF f.kind = "many"
               THEN LET o == CreateManyStudents(
                                 [map |-> maps[e], counter |-> counters[e],
                                  created |-> f.results],
                                 <<Head(f.todo)>>, now)
                    IN [map |-> o.map, counter |-> o.counter, results |-> o.created,
                        updated |-> {}, fault |-> FALSE]
               ELSE LET o == BulkUpdateAttendance(
                                 [map |-> maps[e], counter |-> counters[e],
                                  results |-> f.results, updated |-> {},
                                  created |-> {}, fault |-> FALSE],
                                 <<Head(f.todo)>>, now)
                    IN [map |-> o.map, counter |-> o.counter, results |-> o.results,
                        updated |-> o.updated, fault |-> o.fault]
    IN /\ maps' = [maps EXCEPT ![e] = out.map]
       /\ counters' = [counters EXCEPT ![e] = out.counter]
       /\ issued' = [issued EXCEPT ![e] = @ \cup (counters[e]..(out.counter - 1))]
       /\ calls' = IF out.fault THEN calls ELSE calls + 1
       /\ held' = IF held.live /\ held.map = e /\ held.key \in out.updated
                  THEN NoRef ELSE held
       /\ last' = [op |-> IF out.fault THEN "flightFault" ELSE "flightTurn",
                   map |-> e, id |-> k, found |-> out.updated # {},
                   arg |-> Head(f.todo), result |-> NoRec]
       /\ flights' =
              [calls |-> [flights.calls EXCEPT ![k] =
                            [kind |-> f.kind,
                             state |-> IF out.fault THEN "thrown" ELSE "running",
                             todo |-> Tail(f.todo),
                             results |-> out.results]],
               trace |-> IF out.map # maps[e]
                         THEN Append(flights.trace, [call |-> k, map |-> e])
                         ELSE flights.trace]
       /\ UNCHANGED <<now, bulk, many, session, resp>>

\* createManyStudents(inputs) or bulkUpdateAttendance(inputs) is called: the call
\* runs at once as far as the first await of its loop
FlightCall(k, kind, inputs) ==
    /\ flights.calls[k].state = "free"
    /\ FlightTurn(k, [kind |-> kind, state |-> "running", todo |-> inputs,
                      results |-> << >>])

\* the call is resumed after an await and runs the next turn of its loop
FlightStep(k) ==
    /\ flights.calls[k].state = "running"
    /\ flights.calls[k].todo # << >>
    /\ FlightTurn(k, flights.calls[k])

\* the call is resumed after its last await: return results
FlightReturn(k) ==
    /\ flights.calls[k].state = "running"
    /\ flights.calls[k].todo = << >>
    /\ flights' = [flights EXCEPT !.calls[k].state = "returned"]
    /\ last' = [op |-> "flightReturn", map |-> "users", id |-> k, found |-> FALSE,
                arg |-> NoRec, result |-> NoRec]
    /\ UNCHANGED <<maps, counters, now, bulk, issued, calls, many, held, session, resp>>

NextConcurrent ==
    \/ \E k \in FlightIds, kind \in {"many", "bulk"} :
           \E inputs \in FlightInputs(kind) : FlightCall(k, kind, inputs)
    \/ \E k \in FlightIds : FlightStep(k)
    \/ \E k \in FlightIds : FlightReturn(k)

SpecConcurrent == Init /\ [][NextConcurrent]_vars

----------------------------------------------------------------------------
(* Properties of create, get, update and delete. *)

\* the step is a facade call of the given kind
CallStep(op) == calls' # calls /\ last'.op = op

\* C1: every create returns an id strictly greater than every id handed out before
\* for that entity type, and never an id handed out before, deleted records included.
C1_FreshIds ==
    [][CallStep("create") =>
         /\ last'.result.id \notin issued[last'.map]
         /\ \A i \in issued[last'.map] : last'.result.id > i]_vars

\* a create that follows the deletion of a record with a smaller id
C1_Witness ==
    /\ last.op = "create"
    /\ \E i \in issued[last.map] : i < last.result.id /\ ~MapHas(maps[last.map], i)

\* C5: an update never changes the id or the creation timestamp of the record,
\* also when the payload carries one.
C5_IdAndStampImmutable ==
    [][(CallStep("update") /\ last'.found) =>
         LET e == last'.map
             old == Get(maps[e], last'.id)
             new == Get(maps'[e], last'.id)
         IN /\ new.id = old.id
            /\ new[StampField(e)] = old[StampField(e)]]_vars

\* C6: an update sets exactly the fields of the payload, keeps every other field
\* of the record, and leaves every other record of the store as it was.
C6_UpdateFrame ==
    [][(CallStep("update") /\ last'.found) =>
         LET e == last'.map
             id == last'.id
             p == last'.arg
             old == Get(maps[e], id)
             new == Get(maps'[e], id)
         IN /\ DOMAIN new = (DOMAIN old) \cup (DOMAIN p)
            /\ \A f \in DOMAIN p : new[f] = p[f]
            /\ \A f \in (DOMAIN old) \ (DOMAIN p) : new[f] = old[f]
            /\ last'.result = new
            /\ MapKeys(maps'[e]) = MapKeys(maps[e])
            /\ \A k \in MapKeys(maps[e]) \ {id} : Get(maps'[e], k) = Get(maps[e], k)
            /\ \A e2 \in MapNames \ {e} : maps'[e2] = maps[e2]]_vars

\* an update of one field of a record that has other fields, next to another record
C6_Witness ==
    /\ last.op = "update"
    /\ last.found
    /\ Len(maps[last.map]) > 1
    /\ DOMAIN last.arg # DOMAIN last.result
    /\ \E f \in DOMAIN last.arg : f \notin {"id", "createdAt", "enrolledAt"}

\* C10: get(id) after a create yields the record the create returned, and goes on
\* yielding the same record across every call that is not an update or a delete of
\* that id.
C10_GetAfterCreate ==
    [][\A e \in Gettable :
         /\ (CallStep("create") /\ last'.map = e) =>
                /\ Get(maps'[e], last'.result.id) = last'.result
                /\ last'.result.id = last'.id
         /\ \A id \in MapKeys(maps[e]) :
                \/ CallStep("update") /\ last'.map = e /\ last'.id = id
                \/ CallStep("delete") /\ last'.map = e /\ last'.id = id
                \/ Get(maps'[e], id) = Get(maps[e], id)]_vars

\* a record is still there after a record created before it in the same map was deleted
C10_Witness ==
    /\ last.op = "delete"
    /\ last.found
    /\ \E id \in MapKeys(maps[last.map]) : id > last.id

\* the id names no record of the map: no create returned it, or its record was
\* deleted
Absent(e, id) == id \notin issued[e] \/ ~MapHas(maps[e], id)

\* get of every absent id reports not-found
GetOfAbsent ==
    \A e \in Gettable : \A id \in 0..(counters[e] + 1) :
        Absent(e, id) => Get(maps[e], id) = NoRec

\* C11: for an id that no create returned or whose record was deleted, get and
\* update return not-found and delete returns false, and the store and the id
\* counters stay as they were.
C11_NotFound ==
    [][/\ GetOfAbsent
       /\ GetOfAbsent'
       /\ (CallStep("update") /\ Absent(last'.map, last'.id)) =>
              /\ ~last'.found
              /\ last'.result = NoRec
              /\ maps' = maps
              /\ counters' = counters
       /\ (CallStep("delete") /\ Absent(last'.map, last'.id)) =>
              /\ ~last'.found
              /\ maps' = maps
              /\ counters' = counters]_vars

\* an update of a deleted record, in a map that holds another record
C11_Witness ==
    /\ last.op = "update"
    /\ ~last.found
    /\ last.id \in issued[last.map]
    /\ Len(maps[last.map]) > 0

\* C12: delete of an existing record returns true and removes it; the same delete
\* made again right after returns false and leaves the store as the first left it.
C12_DeleteTwice ==
    [][CallStep("delete") =>
         LET e == last'.map
             id == last'.id
         IN /\ MapHas(maps[e], id) => (last'.found /\ ~MapHas(maps'[e], id))
            /\ (last.op = "delete" /\ last.map = e /\ last.id = id /\ last.found) =>
                   /\ ~last'.found
                   /\ maps' = maps
                   /\ counters' = counters]_vars

\* the second of two calls, both deletes of the seeded school year: after two calls
\* an id that was handed out can only be missing because the first call deleted it
C12_Witness ==
    /\ calls = 2
    /\ last.op = "delete"
    /\ ~last.found
    /\ last.id \in issued[last.map]

\* the keys of a map, in the order of the map
KeySeq(m) == [i \in 1..Len(m) |-> m[i].key]

\* the list holds records of the map, in the order in which the map holds them
InMapOrder(list, m) ==
    list = SelectSeq(MapValues(m), LAMBDA r : \E i \in 1..Len(list) : list[i] = r)

\* every list operation returns records in the order of its map
ListsInMapOrder ==
    /\ \A y \in {NoRec} \cup {Num(v) : v \in SchoolYearIds} :
           InMapOrder(GetCourses(maps["courses"], y), maps["courses"])
    /\ \A c \in {NoRec} \cup {Num(v) : v \in CourseIds} :
           InMapOrder(GetClasses(maps["classes"], c), maps["classes"])
    /\ \A st \in {NoRec} \cup {Num(v) : v \in StudentIds} :
           /\ InMapOrder(GetEnrollments(maps["enrollments"], st, NoRec),
                         maps["enrollments"])
           /\ InMapOrder(GetPayments(maps["payments"], st, NoRec, NoRec, NoRec),
                         maps["payments"])
    /\ \A c \in ClassIds :
           InMapOrder(GetAttendance(maps["attendanceRecords"], c, NoRec),
                      maps["attendanceRecords"])
    /\ \A st \in StudentIds :
           InMapOrder(GetStudentAttendance(maps["attendanceRecords"], st, NoRec),
                      maps["attendanceRecords"])

\* C23: the maps hold their records in ascending order of key, which is the order
\* of insertion, and the list operations return records in that order; a create
\* appends, an update keeps every record at its place, a delete takes its record
\* out and keeps the others in their order.
C23_ListsInInsertionOrder ==
    [][/\ \A e \in MapNames :
              \A i, j \in 1..Len(maps'[e]) : i < j => maps'[e][i].key < maps'[e][j].key
       /\ ListsInMapOrder'
       /\ CallStep("create") =>
              SubSeq(maps'[last'.map], 1, Len(maps[last'.map])) = maps[last'.map]
       /\ CallStep("update") => KeySeq(maps'[last'.map]) = KeySeq(maps[last'.map])
       /\ CallStep("delete") =>
              maps'[last'.map] =
                  SelectSeq(maps[last'.map], LAMBDA en : en.key # last'.id)]_vars

\* the first of several records of a map was updated
C23_Witness ==
    /\ last.op = "update"
    /\ last.found
    /\ Len(maps[last.map]) > 1
    /\ maps[last.map][1].key = last.id

\* C28: every stored record has an id field equal to the key under which its map
\* holds it.
C28_IdIsKey ==
    \A e \in MapNames : \A i \in 1..Len(maps[e]) : maps[e][i].value.id = maps[e][i].key

\* C29: a delete changes only the map of its own entity type, whether or not
\* records of other types refer to the deleted id, and reports the removal.
C29_DeleteDoesNotCascade ==
    [][CallStep("delete") =>
         /\ \A e \in MapNames \ {last'.map} : maps'[e] = maps[e]
         /\ counters' = counters
         /\ last'.found = MapHas(maps[last'.map], last'.id)]_vars

\* a record was deleted to which a record of another entity type refers
C29_Witness ==
    /\ last.op = "delete"
    /\ last.found
    /\ \E e \in MapNames \ {last.map} :
           \E i \in 1..Len(maps[e]) : RefersTo(maps[e][i], last.map, last.id)

----------------------------------------------------------------------------
(* Properties of bulk student creation. *)

\* the results so far answer the inputs taken so far, one for one and in order,
\* with ids that grow
ManyInOrder ==
    /\ Len(many.results) = Len(many.inputs)
    /\ \A i \in 1..Len(many.results) :
           \A f \in DOMAIN many.inputs[i] : many.results[i][f] = many.inputs[i][f]
    /\ \A i, j \in 1..Len(many.results) :
           i < j => many.results[i].id < many.results[j].id

\* C15: createManyStudents creates one student per input through createStudent, one
\* after the other, and its result has one record per input, in input order, with
\* the fields of the input and strictly increasing ids.
C15_CreateManyInOrder ==
    [][/\ ManyInOrder'
       /\ (many.active /\ many'.inputs # many.inputs) =>
              LET r == many'.results[Len(many'.results)]
              IN /\ CallStep("manyStep")
                 /\ r.id = FreshId("students")
                 /\ r = NewRecord("students", last'.arg, r.id, now)
                 /\ maps'["students"] = Append(maps["students"], [key |-> r.id, value |-> r])
       /\ (many.active /\ ~many'.active) =>
              /\ many'.results = many.results
              /\ maps' = maps]_vars

\* a call with two different inputs has returned, made after a student was created
C15_Witness ==
    /\ last.op = "manyReturn"
    /\ Len(many.results) = 2
    /\ many.inputs[1] # many.inputs[2]
    /\ many.results[1].id > 1

----------------------------------------------------------------------------
(* Properties of records in the hands of a caller. *)

\* C16: a caller that writes a field of a record the facade returned does not
\* change the store: every get and every list shows what it showed before.
C16_ReturnedRecordsAreCopies ==
    [][last'.op = "assign" => maps' = maps]_vars

----------------------------------------------------------------------------
(* Properties of users and enrollments. *)

\* C17: no two stored users have the same username.
C17_UniqueUsernames ==
    LET m == maps["users"]
    IN \A i, j \in 1..Len(m) : i # j => m[i].value.username # m[j].value.username

\* C18: after createEnrollment for student s and class c, with the active flag true
\* or left out, getEnrollments(s) holds exactly one record of the new id, and that
\* record has classId c and active true.
C18_EnrollmentIsActive ==
    [][(/\ CallStep("create")
        /\ last'.map = "enrollments"
        /\ ("active" \in DOMAIN last'.arg => last'.arg.active)) =>
         LET x == last'.arg
             list == GetEnrollments(maps'["enrollments"], Num(x.studentId), NoRec)
             mine == SelectSeq(list, LAMBDA r : r.id = last'.id)
         IN /\ Len(mine) = 1
            /\ mine[1].classId = x.classId
            /\ "active" \in DOMAIN mine[1]
            /\ mine[1].active = TRUE]_vars

----------------------------------------------------------------------------
(* Properties of the request layer. *)

\* the session carries a user id
HasUserId(sess) == sess # NoRec

\* the session carries a user id and the admin flag
HasAdminFlag(sess) == sess # NoRec /\ sess.isAdmin

\* the step is a request to the route of e: it is answered, and not as the request
\* before it was
Requested(route, e) == resp' # resp /\ resp'.req.route = route /\ resp'.req.map = e

\* C19: POST /api/users answers 401 without a session and 403 for a session that is
\* not admin, and leaves the users and their counter alone in both cases; users
\* change only under a logged-in admin session.
C19_UsersOnlyByAdmin ==
    [][/\ Requested("POST", "users") =>
              /\ ~HasUserId(session) =>
                     /\ resp'.status = 401
                     /\ maps' = maps
                     /\ counters' = counters
              /\ (HasUserId(session) /\ ~HasAdminFlag(session)) =>
                     /\ resp'.status = 403
                     /\ maps' = maps
                     /\ counters' = counters
       /\ (maps'["users"] # maps["users"] \/ counters'["users"] # counters["users"]) =>
              /\ HasAdminFlag(session)
              /\ resp'.status = 201]_vars

\* a session of a user who is not admin was refused the creation of a user
C19_Witness ==
    /\ resp.status = 403
    /\ resp.req.map = "users"
    /\ session # NoRec
    /\ ~session.isAdmin
    /\ \E i \in 1..Len(maps["users"]) : maps["users"][i].value.id = session.userId

\* C20: a request to a route of the seven entity types made without a user id in
\* the session answers 401 and neither calls the facade nor changes the store; a
\* session gets its user id only from a login with the username and the password of
\* a stored user, and loses it at logout and only there.
C20_SessionGuardsTheRoutes ==
    [][/\ (resp' # resp /\ resp'.req.map \in RouteMaps /\ ~HasUserId(session)) =>
              /\ resp'.status = 401
              /\ resp'.body = NoRec
              /\ maps' = maps
              /\ counters' = counters
              /\ last' = last
       /\ (maps' # maps \/ counters' # counters \/ last' # last) => HasUserId(session)
       /\ (session' # session /\ session' # NoRec) =>
              /\ resp'.req.route = "login"
              /\ resp'.status = 200
              /\ \E i \in 1..Len(maps["users"]) :
                     LET u == maps["users"][i].value
                     IN /\ u.username = resp'.req.body.username
                        /\ u.password = resp'.req.body.password
                        /\ session'.userId = u.id
       /\ (resp' # resp /\ resp'.req.route = "logout") => session' = NoRec
       /\ (session # NoRec /\ session' = NoRec) => resp'.req.route = "logout"]_vars

\* after a login, a write and a logout, a request to an entity route was refused
C20_Witness ==
    /\ resp.status = 401
    /\ resp.req.map \in RouteMaps
    /\ session = NoRec
    /\ calls = 1
    /\ last.op \in {"create", "update", "delete"}

\* the request of the response is a GET, PUT or DELETE on /api/<entity>/:id
OnOneRecord == resp' # resp /\ resp'.req.route \in {"GET", "PUT", "DELETE"}

\* the request gets as far as the call of the facade: it comes with a session of
\* a user, and the body of a PUT passes the validation that precedes the call
ReachesFacade(sess, req) ==
    /\ HasUserId(sess)
    /\ req.route = "PUT" => "illTyped" \notin DOMAIN req.body

\* C22: a GET, PUT or DELETE on /api/<entity>/:id that calls the facade answers 404
\* exactly when no record with the id is stored at the time of the call; no other
\* outcome is answered 404, and a response 404 leaves the store as it was.
C22_NotFoundIs404 ==
    [][OnOneRecord =>
         LET req == resp'.req
             stored == MapHas(maps[req.map], req.id)
         IN /\ resp'.status = 404 =>
                  /\ ~stored
                  /\ ReachesFacade(session, req)
                  /\ maps' = maps
                  /\ counters' = counters
            /\ ReachesFacade(session, req) => (resp'.status = 404 <=> ~stored)
            /\ ReachesFacade(session, req) /\ stored => resp'.status = 200]_vars

\* a PUT on an id that is not stored was answered 404
C22_Witness ==
    /\ resp.status = 404
    /\ resp.req.route = "PUT"
    /\ HasUserId(session)
    /\ ~MapHas(maps[resp.req.map], resp.req.id)

\* the body lacks a field that the insert schema of e requires
LacksRequired(e, body) == RequiredFields(e) \ DOMAIN body # {}

\* C24: a counter is one more than the number of ids it has given out, which
\* start at 1; a POST that passes the session checks with a body that fails
\* validation answers 400 and leaves every counter and the store unchanged; a
\* POST answered 201 gives the new record the value of the counter and advances
\* that counter, and no other, by one; no other request changes a counter.
C24_CounterAdvancesOnCreateOnly ==
    [][/\ \A e \in MapNames :
              /\ issued'[e] = 1..Cardinality(issued'[e])
              /\ counters'[e] = Cardinality(issued'[e]) + 1
       /\ resp' # resp /\ resp'.req.route = "POST" =>
              LET e == resp'.req.map
              IN /\ ( /\ HasUserId(session)
                      /\ e = "users" => HasAdminFlag(session)
                      /\ LacksRequired(e, resp'.req.body) ) =>
                       /\ resp'.status = 400
                       /\ counters' = counters
                       /\ maps' = maps
                 /\ resp'.status = 201 =>
                       /\ ~LacksRequired(e, resp'.req.body)
                       /\ resp'.body.id = counters[e]
                       /\ MapHas(maps'[e], counters[e])
                       /\ counters' = [counters EXCEPT ![e] = @ + 1]
                 /\ resp'.status # 201 => counters' = counters /\ maps' = maps
       /\ counters' # counters => last'.op = "create" /\ calls' # calls]_vars

\* a create request was rejected at validation after a record of its type had
\* been created
C24_Witness ==
    /\ resp.status = 400
    /\ resp.req.route = "POST"
    /\ HasUserId(session)
    /\ resp.req.map \in RouteMaps \ {"schoolYears"}
    /\ counters[resp.req.map] = 2

\* the row fails the validation of the fields: the student data made of it lacks
\* a field that the student schema requires
RowFails(row) == RequiredFields("students") \ DOMAIN StudentData(row) # {}

\* C21: an import with a session and a file that parses is all or nothing: when
\* a row fails field validation the answer is 400 and the store and the counters
\* are unchanged; when no row fails the answer is 201, the student map is
\* extended by one student per row, in row order, with the ids from the counter
\* on, holding the data of its row, and nothing else changes.
C21_ImportAllOrNothing ==
    [][(Requested("IMPORT", "students") /\ HasUserId(session)
          /\ "rows" \in DOMAIN resp'.req.body) =>
         LET rows == resp'.req.body.rows
             old == maps["students"]
             new == maps'["students"]
             first == counters["students"]
         IN IF \E i \in 1..Len(rows) : RowFails(rows[i])
            THEN /\ resp'.status = 400
                 /\ maps' = maps
                 /\ counters' = counters
            ELSE /\ resp'.status = 201
                 /\ Len(new) = Len(old) + Len(rows)
                 /\ SubSeq(new, 1, Len(old)) = old
                 /\ \A i \in 1..Len(rows) :
                        LET en == new[Len(old) + i]
                        IN /\ en.key = first + i - 1
                           /\ en.value.id = en.key
                           /\ Restrict(en.value, DOMAIN StudentData(rows[i])) =
                                  StudentData(rows[i])
                           /\ resp'.body.students[i] = en.value
                 /\ resp'.body.count = Len(rows)
                 /\ counters' = [counters EXCEPT !["students"] = first + Len(rows)]
                 /\ \A e \in MapNames \ {"students"} : maps'[e] = maps[e]]_vars

\* a file whose second row fails was rejected, with a student in the store
C21_Witness ==
    /\ resp.status = 400
    /\ resp.req.route = "IMPORT"
    /\ HasUserId(session)
    /\ "rows" \in DOMAIN resp.req.body
    /\ Len(resp.req.body.rows) = 2
    /\ ~RowFails(resp.req.body.rows[1])
    /\ RowFails(resp.req.body.rows[2])
    /\ Len(maps["students"]) = 1

\* a bulk request that is to be rejected: records is not an array with an
\* element, or one of its records fails the validation
BulkRejected(body) ==
    \/ "records" \notin DOMAIN body
    \/ body.records = << >>
    \/ \E i \in 1..Len(body.records) :
           \/ LacksRequired("attendanceRecords", body.records[i])
           \/ "illTyped" \in DOMAIN body.records[i]

\* C30: a bulk attendance request with a session whose records field is not a
\* non-empty array, or one of whose records fails validation at whatever position,
\* is answered 400 and leaves the store and the counters as they were; a bulk
\* request answered 400 has changed nothing.
C30_BulkValidatesBeforeWriting ==
    [][Requested("BULK", "attendanceRecords") =>
         /\ HasUserId(session) /\ BulkRejected(resp'.req.body) =>
                /\ resp'.status = 400
                /\ maps' = maps
                /\ counters' = counters
         /\ resp'.status = 400 =>
                /\ BulkRejected(resp'.req.body)
                /\ maps' = maps
                /\ counters' = counters]_vars

\* a request whose second record fails was rejected, with its first record valid
\* and an attendance record in the store
C30_Witness ==
    /\ resp.status = 400
    /\ resp.req.route = "BULK"
    /\ HasUserId(session)
    /\ "records" \in DOMAIN resp.req.body
    /\ Len(resp.req.body.records) = 2
    /\ "illTyped" \notin DOMAIN resp.req.body.records[1]
    /\ "illTyped" \in DOMAIN resp.req.body.records[2]
    /\ Len(maps["attendanceRecords"]) = 1

----------------------------------------------------------------------------
(* Properties of the attendance operations. *)

\* the calendar day of a date value: the year-month-day it names, whatever its
\* time of day and whether it is a Date or a string
CalendarDay(v) == IF v.kind = "Date" THEN v.ms \div UnitsPerDay ELSE v.day

\* two attendance values of the same student, class and calendar day
SameTriple(a, b) ==
    /\ a.studentId = b.studentId
    /\ a.classId = b.classId
    /\ CalendarDay(a.date) = CalendarDay(b.date)

\* C2: at most one attendance record per (studentId, classId, calendar day).
C2_OneRecordPerTriple ==
    LET m == maps["attendanceRecords"]
    IN \A i, j \in 1..Len(m) : i # j => ~SameTriple(m[i].value, m[j].value)

\* the step is one turn of the loop of bulkUpdateAttendance
BulkStepTaken == bulk.active /\ bulk'.n = bulk.n + 1

\* the places of the attendance records of the triple of x
TripleAt(m, x) == {i \in 1..Len(m) : SameTriple(m[i].value, x)}

\* C3: a bulk input whose triple matches a stored record updates it: afterwards
\* exactly one record has the triple, with the input's present value and the id of
\* the record that was there.
C3_BulkUpdatesTheMatch ==
    [][BulkStepTaken =>
         LET x == last'.arg
             m == maps["attendanceRecords"]
             after == maps'["attendanceRecords"]
         IN TripleAt(m, x) # {} =>
                /\ Cardinality(TripleAt(after, x)) = 1
                /\ \A i \in TripleAt(after, x) :
                       /\ after[i].value.present = x.present
                       /\ \E j \in TripleAt(m, x) : after[i].value.id = m[j].value.id]_vars

\* C4: a turn of the bulk loop never faults, and it finds a stored record exactly
\* when one of the input's student, class and calendar day is stored, as a Date or
\* as a string and at any time of day.
C4_BulkToleratesDateForms ==
    [][BulkStepTaken =>
         /\ last'.op = "bulkStep"
         /\ last'.found <=> TripleAt(maps["attendanceRecords"], last'.arg) # {}]_vars

\* C9: getAttendance(classId, date) is exactly the records of the class on the
\* calendar day of date, in the order of the map; without date, the records of the
\* class.
C9_GetAttendanceByDay ==
    LET m == maps["attendanceRecords"]
    IN \A c \in ClassArgs :
         /\ GetAttendance(m, c, NoRec) = SelectSeq(MapValues(m), LAMBDA a : a.classId = c)
         /\ \A d \in DateArgs :
              GetAttendance(m, c, d) =
                  SelectSeq(MapValues(m),
                      LAMBDA a : a.classId = c /\ CalendarDay(a.date) = CalendarDay(d))

\* a day of a class holds a record dated by a string and one dated by a Date at
\* another time of day than the argument, and a third record is left out
C9_Witness ==
    LET m == maps["attendanceRecords"]
    IN \E c \in ClassArgs, d \in DateArgs :
         LET r == GetAttendance(m, c, d)
         IN /\ Len(r) = 2
            /\ Len(m) = 3
            /\ \E i, j \in 1..2 :
                 /\ r[i].date.kind = "string"
                 /\ r[j].date.kind = "Date"
                 /\ r[j].date # d

\* the attendance records of a class
OfClass(m, c) == SelectSeq(MapValues(m), LAMBDA a : a.classId = c)

\* C13: a bulk input whose triple matches no stored record creates exactly one
\* record: the class has one record more, the new record has the input's triple,
\* and every record that was there is as it was.
C13_BulkCreatesTheAbsent ==
    [][BulkStepTaken =>
         LET x == last'.arg
             m == maps["attendanceRecords"]
             after == maps'["attendanceRecords"]
         IN TripleAt(m, x) = {} =>
                /\ Len(OfClass(after, x.classId)) = Len(OfClass(m, x.classId)) + 1
                /\ Len(after) = Len(m) + 1
                /\ SubSeq(after, 1, Len(m)) = m
                /\ SameTriple(after[Len(after)].value, x)]_vars

\* C14: every turn of the bulk loop adds one element to the results, so that the
\* results have one element per input in input order; the element is a record of
\* the store and carries the fields of the input of its turn.
C14_OneResultPerInput ==
    [][BulkStepTaken =>
         /\ last'.op = "bulkStep"
         /\ Len(bulk'.results) = bulk'.n
         /\ bulk'.results # << >>
         /\ SubSeq(bulk'.results, 1, Len(bulk.results)) = bulk.results
         /\ LET r == bulk'.results[Len(bulk'.results)]
                x == last'.arg
            IN /\ \E i \in 1..Len(maps'["attendanceRecords"]) :
                      maps'["attendanceRecords"][i].value = r
               /\ \A f \in DOMAIN x : r[f] = x[f]]_vars

\* the record that the call returned last for the id of its i-th result
LatestResult(results, i) ==
    LET same == {j \in 1..Len(results) : results[j].id = results[i].id}
    IN results[CHOOSE j \in same : \A k \in same : k <= j]

\* C26: when bulkUpdateAttendance faults on an input, nothing is rolled back: the
\* map and the counter are as the earlier turns left them, and every record the
\* call had created or updated is stored under its id as the call last wrote it.
C26_BulkFaultKeepsEarlierWrites ==
    [][(bulk.active /\ last'.op = "bulkFault" /\ bulk'.n = bulk.n + 1) =>
         /\ maps' = maps
         /\ counters' = counters
         /\ ~bulk'.active
         /\ \A i \in 1..Len(bulk.results) :
                \E j \in 1..Len(maps'["attendanceRecords"]) :
                    /\ maps'["attendanceRecords"][j].key = bulk.results[i].id
                    /\ maps'["attendanceRecords"][j].value =
                           LatestResult(bulk.results, i)]_vars

\* the call faulted after it had created a record
C26_Witness ==
    /\ last.op = "bulkFault"
    /\ Len(bulk.results) > 0
    /\ \E i \in 1..Len(bulk.results) : bulk.results[i].id \in issued["attendanceRecords"]
    /\ counters["attendanceRecords"] > 2

\* C25: of two calls in flight, none writes to a map between two writes of the
\* other to that map: in the order in which the writes took effect, the writes of
\* one call to one map are not separated by a write of another call to it.
C25_NoInterleaving ==
    LET t == flights.trace
    IN \A i, j, l \in 1..Len(t) :
           (i < j /\ j < l /\ t[i].call = t[l].call /\ t[i].map = t[l].map) =>
               (t[j].call = t[i].call \/ t[j].map # t[i].map)

\* no two attendance records of the map have the same triple
NoDuplicateTriple(m) ==
    \A i, j \in 1..Len(m) : i # j => ~SameTriple(m[i].value, m[j].value)

----------------------------------------------------------------------------
(* Properties of the filtered lists. *)

\* C7: getCourses and getClasses without a filter return every record, and with a
\* value v, zero included, exactly the records whose schoolYearId (courseId) is v.
C7_CourseAndClassFilter ==
    /\ GetCourses(maps["courses"], NoRec) = MapValues(maps["courses"])
    /\ GetClasses(maps["classes"], NoRec) = MapValues(maps["classes"])
    /\ \A v \in {0} \cup SchoolYearIds :
         GetCourses(maps["courses"], Num(v)) =
             SelectSeq(MapValues(maps["courses"]), LAMBDA x : x.schoolYearId = v)
    /\ \A v \in {0} \cup CourseIds :
         GetClasses(maps["classes"], Num(v)) =
             SelectSeq(MapValues(maps["classes"]), LAMBDA x : x.courseId = v)

\* a filter that is given asks for the value, one that is left out asks nothing
Meets(x, field, arg) == arg = NoRec \/ x[field] = arg.v

\* C8: getEnrollments and getPayments return exactly the records that pass the
\* equality test of every filter that is given, for every choice of given filters
\* and every value.
C8_AndOfGivenFilters ==
    /\ \A s \in OptArgs(StudentIds), c \in OptArgs(ClassIds) :
         GetEnrollments(maps["enrollments"], s, c) =
             SelectSeq(MapValues(maps["enrollments"]),
                 LAMBDA x : Meets(x, "studentId", s) /\ Meets(x, "classId", c))
    /\ \A s \in OptArgs(StudentIds), c \in OptArgs(CourseIds),
          mo \in OptArgs(Months), y \in OptArgs(Years) :
         GetPayments(maps["payments"], s, c, mo, y) =
             SelectSeq(MapValues(maps["payments"]),
                 LAMBDA x : /\ Meets(x, "studentId", s)
                            /\ Meets(x, "courseId", c)
                            /\ Meets(x, "month", mo)
                            /\ Meets(x, "year", y))

====
